---- MODULE Spec2Model ----
(***************************************************************************)
(* Model of packages/chain-mon/src/balance-mon/service.ts                  *)
(* (BalanceMonService): init() parses the accounts option, main() is one   *)
(* tick of the polling loop.  The loop that calls init() once and main()   *)
(* repeatedly lives in BaseServiceV2 (@eth-optimism/common-ts), which is   *)
(* not part of the source tree at hand; it is modelled from the            *)
(* specification (sections 4.1 and 5).                                     *)
(***************************************************************************)
EXTENDS Integers, Sequences, FiniteSets, TLC

VARIABLES
  config,               \* this.options.accounts, as the JSON text's structure
  phase,                \* lifecycle state of the service
  running,              \* FALSE once the shutdown signal has been received
  timer,                \* "armed" while the interval wait is pending
  accounts,             \* this.state.accounts
  idx,                  \* position of the for..of iterator in main()
  pc,                   \* control point inside main()
  outstanding,          \* RPC calls issued and not yet settled
  balances,             \* this.metrics.balances (gauge)
  safeNonces,           \* this.metrics.safeNonces (gauge)
  unexpectedRpcErrors,  \* this.metrics.unexpectedRpcErrors (counter)
  ticks,                \* number of ticks started so far
  issued,               \* RPC calls issued by the current tick, in order
  writes,               \* metric-sink calls made for the entry worked on last
  lastRead,             \* history: raw value of the last successful read
  failedOps,            \* history: number of failed account steps per kind
  settled,              \* history: the RPC answer the latest step of main() took
  prevIssued,           \* history: RPC calls issued by the previous tick
  keepLog               \* TRUE: `writes` is kept for the whole tick

vars == <<config, phase, running, timer, accounts, idx, pc, outstanding,
          balances, safeNonces, unexpectedRpcErrors, ticks, issued, writes,
          lastRead, failedOps, settled, prevIssued, keepLog>>

----------------------------------------------------------------------------
(* Bounds of the model *)

MaxAccounts == 2
MaxTicks == 2

----------------------------------------------------------------------------
(* Values *)

Undefined == "undefined"
Addresses == {"0xAA", "0xBB"}
Nicknames == {"alice"}

\* Arbitrary-precision integers (ethers.BigNumber) are pairs <<hi, lo>> that
\* stand for hi * LimbBase + lo; the model covers values below 2^54.
LimbBase == 134217728
DoubleExact == 67108864

NoValue == <<-1, -1>>

\* Results the RPC capability may give: 5 wei and 2^53 + 1 wei for a balance,
\* the byte strings 0x and 0x20000000000001 (2^53 + 1) for a contract call.
BalanceValues == {<<0, 5>>, <<DoubleExact, 1>>}
CallReturns == {<<>>, <<32, 0, 0, 0, 0, 0, 1>>}

NullEntry == [isNull |-> TRUE, address |-> Undefined, nickname |-> Undefined, safe |-> FALSE]
AccountRecords == [isNull : {FALSE}, address : Addresses, nickname : Nicknames, safe : BOOLEAN]
NoAddressRecord == [isNull |-> FALSE, address |-> Undefined, nickname |-> "alice", safe |-> FALSE]
\* The entries the registries of the model are made of: the accounts, of which
\* those at SafeAddresses may be flagged safe, and two entries no Account
\* record matches.
SafeAddresses == {"0xAA"}
Entries ==
  {r \in AccountRecords : r.safe => r.address \in SafeAddresses}
    \cup {NullEntry, NoAddressRecord}

RECURSIVE SeqsUpTo(_, _)
SeqsUpTo(S, n) ==
  IF n = 0 THEN {<<>>}
  ELSE LET shorter == SeqsUpTo(S, n - 1)
       IN shorter \cup {Append(s, e) : s \in {t \in shorter : Len(t) = n - 1}, e \in S}

\* The accounts option is a string; the model keeps what JSON.parse makes of
\* it: text that is not JSON, JSON that is not an array, or a JSON array.
Configs ==
  {[kind |-> "unparseable", entries |-> <<>>], [kind |-> "object", entries |-> <<>>]}
    \cup {[kind |-> "array", entries |-> es] : es \in SeqsUpTo(Entries, MaxAccounts)}

LabelPairs == (Addresses \cup {Undefined}) \X (Nicknames \cup {Undefined})
Sections == {"balances", "safeNonce"}
Names == {"getBalance", "getSafeNonce"}
ErrorLabels == Sections \X Names

Label(account) == <<account.address, account.nickname>>

----------------------------------------------------------------------------
(* Pure functions *)

\* JSON.parse throws on text that is not JSON and accepts every JSON value.
JsonParses(c) == c.kind # "unparseable"
JsonParse(c) == [kind |-> c.kind, entries |-> c.entries]

\* BigNumber.from(hex): "0x" alone is rejected, otherwise the bytes are read
\* most significant first.
BigNumberAccepts(bytes) == Len(bytes) > 0

\* variant: the bytes are read least significant first
RECURSIVE BigNumberFrom_LittleEndian(_)
BigNumberFrom_LittleEndian(bytes) ==
  IF Len(bytes) = 0 THEN <<0, 0>>
  ELSE LET rest == BigNumberFrom_LittleEndian(Tail(bytes))
           carry == rest[2] \div (LimbBase \div 256)
           low == (rest[2] % (LimbBase \div 256)) * 256 + Head(bytes)
       IN <<rest[1] * 256 + carry, low>>

RECURSIVE BigNumberFrom(_)
BigNumberFrom(bytes) ==
  IF Len(bytes) = 0 THEN <<0, 0>>
  ELSE LET rest == BigNumberFrom(SubSeq(bytes, 1, Len(bytes) - 1))
           carry == rest[2] \div (LimbBase \div 256)
           low == (rest[2] % (LimbBase \div 256)) * 256 + bytes[Len(bytes)]
       IN <<rest[1] * 256 + carry, low>>

\* parseInt(x.toString(), 10): the decimal digits are exact, the result is the
\* nearest IEEE-754 double (ties to even mantissa).  Exact below 2^53; between
\* 2^53 and 2^54 the doubles are the even integers.
ParseIntOfDecimal(bn) ==
  IF bn[1] < DoubleExact \/ bn[2] % 2 = 0 THEN bn
  ELSE IF (bn[2] - 1) % 4 = 0 THEN <<bn[1], bn[2] - 1>>
  ELSE IF bn[2] + 1 = LimbBase THEN <<bn[1] + 1, 0>>
  ELSE <<bn[1], bn[2] + 1>>

GaugeSet(gauge, labels, value) == [gauge EXCEPT ![labels] = value]
CounterInc(counter, labels) == [counter EXCEPT ![labels] = @ + 1]

----------------------------------------------------------------------------
(* main(): one definition per statement group of the loop body.  Each one     *)
(* gives the effect on the metrics, on the calls in flight and on the control *)
(* point; `writes` and `issued` record the sink and RPC calls as a recording  *)
(* fake of the two capabilities would: `issued` for the whole tick, `writes`  *)
(* for one entry of the registry at a time.                                   *)

Account(i) == accounts.entries[i]

BalanceRequest(i) ==
  [op |-> "getBalance", idx |-> i, to |-> Account(i).address, data |-> "", tick |-> ticks]
NonceRequest(i) ==
  [op |-> "call", idx |-> i, to |-> Account(i).address, data |-> "0xaffed0e0", tick |-> ticks]

SinkCall(i, step, metric, labels, value) ==
  [idx |-> i, step |-> step, metric |-> metric, labels |-> labels, value |-> value]

\* the record of sink calls starts afresh with each entry of the registry,
\* unless it is kept for the whole tick
Recorded(log, call) ==
  IF ~keepLog /\ log # <<>> /\ log[1].idx # call.idx THEN <<call>> ELSE Append(log, call)

\* an RPC answer: a value, or an error
NoAnswer == [op |-> "none", idx |-> 0, ok |-> FALSE, value |-> <<>>]
Answer(op, i, ok, value) == [op |-> op, idx |-> i, ok |-> ok, value |-> value]

\* a request as the RPC capability sees it
Call(request) == [op |-> request.op, to |-> request.to, data |-> request.data]


\* variant: the call is made and not awaited
GetBalance_NoAwait(i) ==
  /\ outstanding' = outstanding \cup {BalanceRequest(i)}
  /\ issued' = Append(issued, BalanceRequest(i))
  /\ pc' = "ifSafe"

\* line 81: await this.options.rpc.getBalance(account.address)
GetBalance(i) ==
  /\ outstanding' = outstanding \cup {BalanceRequest(i)}
  /\ issued' = Append(issued, BalanceRequest(i))
  /\ pc' = "awaitBalance"

\* variant: a label pair already written in this tick is not written again
BalanceTry_FirstWins(i, value) ==
  /\ balances' =
       IF \E k \in DOMAIN writes :
            writes[k].metric = "balances" /\ writes[k].labels = Label(Account(i))
       THEN balances
       ELSE GaugeSet(balances, Label(Account(i)), ParseIntOfDecimal(value))
  /\ writes' = Recorded(writes, SinkCall(i, "balance", "balances", Label(Account(i)),
                                          ParseIntOfDecimal(value)))
  /\ pc' = "ifSafe"
  /\ UNCHANGED <<safeNonces, unexpectedRpcErrors, idx>>

\* lines 82-94: the rest of the try block once getBalance has resolved
BalanceTry(i, value) ==
  /\ balances' = GaugeSet(balances, Label(Account(i)), ParseIntOfDecimal(value))
  /\ writes' = Recorded(writes, SinkCall(i, "balance", "balances", Label(Account(i)),
                                          ParseIntOfDecimal(value)))
  /\ pc' = "ifSafe"
  /\ UNCHANGED <<safeNonces, unexpectedRpcErrors, idx>>


\* variant: the catch block counts the error and lets it escape from main()
BalanceCatch_Rethrow(i) ==
  /\ unexpectedRpcErrors' = CounterInc(unexpectedRpcErrors, <<"balances", "getBalance">>)
  /\ writes' = Recorded(writes, SinkCall(i, "balance", "unexpectedRpcErrors", <<"balances", "getBalance">>, NoValue))
  /\ pc' = "threw"
  /\ UNCHANGED <<balances, safeNonces, idx>>

\* variant: the catch block also clears the gauge of the account
BalanceCatch_ZeroGauge(i) ==
  /\ unexpectedRpcErrors' = CounterInc(unexpectedRpcErrors, <<"balances", "getBalance">>)
  /\ balances' = GaugeSet(balances, Label(Account(i)), <<0, 0>>)
  /\ writes' = Recorded(Recorded(writes, SinkCall(i, "balance", "unexpectedRpcErrors", <<"balances", "getBalance">>, NoValue)),
                        SinkCall(i, "balance", "balances", Label(Account(i)), <<0, 0>>))
  /\ pc' = "ifSafe"
  /\ UNCHANGED <<safeNonces, idx>>

\* variant: an account whose balance read failed is done with for this tick
BalanceCatch_SkipsNonce(i) ==
  /\ unexpectedRpcErrors' = CounterInc(unexpectedRpcErrors, <<"balances", "getBalance">>)
  /\ writes' = Recorded(writes, SinkCall(i, "balance", "unexpectedRpcErrors", <<"balances", "getBalance">>, NoValue))
  /\ pc' = "for"
  /\ idx' = i + 1
  /\ UNCHANGED <<balances, safeNonces>>

\* lines 95-105: catch (err) of the balance step
BalanceCatch(i) ==
  /\ unexpectedRpcErrors' = CounterInc(unexpectedRpcErrors, <<"balances", "getBalance">>)
  /\ writes' = Recorded(writes, SinkCall(i, "balance", "unexpectedRpcErrors", <<"balances", "getBalance">>, NoValue))
  /\ pc' = "ifSafe"
  /\ UNCHANGED <<balances, safeNonces, idx>>


\* variant: the nonce is fetched for every account
IsSafe_Always(account) == TRUE

\* line 108: if (account.safe)
IsSafe(account) == account.safe

\* lines 111-116: await this.options.rpc.call({ to, data: '0xaffed0e0' })
GetSafeNonce(i) ==
  /\ outstanding' = outstanding \cup {NonceRequest(i)}
  /\ issued' = Append(issued, NonceRequest(i))
  /\ pc' = "awaitNonce"


\* variant: the catch block of the nonce step counts under the balance labels
NonceCatch_WrongLabel(i) ==
  /\ unexpectedRpcErrors' = CounterInc(unexpectedRpcErrors, <<"safeNonce", "getBalance">>)
  /\ writes' = Recorded(writes, SinkCall(i, "nonce", "unexpectedRpcErrors", <<"safeNonce", "getBalance">>, NoValue))
  /\ pc' = "for"
  /\ idx' = i + 1
  /\ UNCHANGED <<balances, safeNonces>>

\* variant: a failed nonce call withdraws the balance written for the account
NonceCatch_ClearsBalance(i) ==
  /\ unexpectedRpcErrors' = CounterInc(unexpectedRpcErrors, <<"safeNonce", "getSafeNonce">>)
  /\ writes' = Recorded(writes, SinkCall(i, "nonce", "unexpectedRpcErrors", <<"safeNonce", "getSafeNonce">>, NoValue))
  /\ balances' = GaugeSet(balances, Label(Account(i)), NoValue)
  /\ pc' = "for"
  /\ idx' = i + 1
  /\ UNCHANGED safeNonces

\* lines 127-137: catch (err) of the nonce step, then the next iteration
NonceCatch(i) ==
  /\ unexpectedRpcErrors' = CounterInc(unexpectedRpcErrors, <<"safeNonce", "getSafeNonce">>)
  /\ writes' = Recorded(writes, SinkCall(i, "nonce", "unexpectedRpcErrors", <<"safeNonce", "getSafeNonce">>, NoValue))
  /\ pc' = "for"
  /\ idx' = i + 1
  /\ UNCHANGED <<balances, safeNonces>>


\* variant: a byte string BigNumber.from rejects is dropped without a trace
NonceTry_Silent(i, bytes) ==
  IF BigNumberAccepts(bytes)
  THEN /\ safeNonces' = GaugeSet(safeNonces, Label(Account(i)), ParseIntOfDecimal(BigNumberFrom(bytes)))
       /\ writes' = Recorded(writes, SinkCall(i, "nonce", "safeNonces", Label(Account(i)),
                                               ParseIntOfDecimal(BigNumberFrom(bytes))))
       /\ pc' = "for"
       /\ idx' = i + 1
       /\ UNCHANGED <<balances, unexpectedRpcErrors>>
  ELSE /\ pc' = "for"
       /\ idx' = i + 1
       /\ UNCHANGED <<balances, safeNonces, unexpectedRpcErrors, writes>>

\* lines 111-126: the rest of the try block once rpc.call has resolved;
\* BigNumber.from throws inside the try, so a rejected string ends in the catch
NonceTry(i, bytes) ==
  IF BigNumberAccepts(bytes)
  THEN /\ safeNonces' = GaugeSet(safeNonces, Label(Account(i)), ParseIntOfDecimal(BigNumberFrom(bytes)))
       /\ writes' = Recorded(writes, SinkCall(i, "nonce", "safeNonces", Label(Account(i)),
                                               ParseIntOfDecimal(BigNumberFrom(bytes))))
       /\ pc' = "for"
       /\ idx' = i + 1
       /\ UNCHANGED <<balances, unexpectedRpcErrors>>
  ELSE NonceCatch(i)

\* lines 106-108 and 138-139: after the balance step, the nonce step runs for
\* a safe account, otherwise the loop moves on.  Reading .safe of null throws
\* outside of any try block, which ends main() with the exception.
AfterBalance(i) ==
  IF Account(i).isNull
  THEN pc' = "threw" /\ UNCHANGED <<idx, outstanding, issued>>
  ELSE IF IsSafe(Account(i))
  THEN GetSafeNonce(i) /\ UNCHANGED idx
  ELSE pc' = "for" /\ idx' = i + 1 /\ UNCHANGED <<outstanding, issued>>

----------------------------------------------------------------------------
(* Steps of main() *)

schedVars == <<config, keepLog, phase, running, timer, accounts, ticks, prevIssued>>
metricVars == <<balances, safeNonces, unexpectedRpcErrors>>

InMain == phase = "ticking"

\* variant: the loop looks at the shutdown flag and leaves early
ForOf_StopAware ==
  /\ InMain /\ pc = "for"
  /\ IF accounts.kind # "array"
     THEN pc' = "threw" /\ UNCHANGED <<idx, outstanding, issued, writes, metricVars, failedOps>>
     ELSE IF idx > Len(accounts.entries) \/ ~running
     THEN pc' = "returned" /\ UNCHANGED <<idx, outstanding, issued, writes, metricVars, failedOps>>
     ELSE IF Account(idx).isNull
     THEN /\ BalanceCatch(idx)
          /\ failedOps' = [failedOps EXCEPT !["balances"] = @ + 1]
          /\ UNCHANGED <<outstanding, issued>>
     ELSE /\ GetBalance(idx)
          /\ UNCHANGED <<idx, writes, metricVars, failedOps>>
  /\ settled' = NoAnswer
  /\ UNCHANGED <<schedVars, lastRead>>

\* variant: a tick that found nothing to iterate is counted as an error
ForOf_CountsEmpty ==
  /\ InMain /\ pc = "for"
  /\ IF accounts.kind # "array"
     THEN pc' = "threw" /\ UNCHANGED <<idx, outstanding, issued, writes, metricVars, failedOps>>
     ELSE IF idx > Len(accounts.entries)
     THEN /\ pc' = "returned"
          /\ unexpectedRpcErrors' =
               IF idx = 1 THEN CounterInc(unexpectedRpcErrors, <<"balances", "getBalance">>)
               ELSE unexpectedRpcErrors
          /\ UNCHANGED <<idx, outstanding, issued, writes, balances, safeNonces, failedOps>>
     ELSE IF Account(idx).isNull
     THEN /\ BalanceCatch(idx)
          /\ failedOps' = [failedOps EXCEPT !["balances"] = @ + 1]
          /\ UNCHANGED <<outstanding, issued>>
     ELSE /\ GetBalance(idx)
          /\ UNCHANGED <<idx, writes, metricVars, failedOps>>
  /\ settled' = NoAnswer
  /\ UNCHANGED <<schedVars, lastRead>>

\* line 78: for (const account of this.state.accounts), up to the first await
\* of the body.  A value that is not iterable makes for..of throw; reading
\* .address of a null element throws inside the try block of the balance step.
ForOf ==
  /\ InMain /\ pc = "for"
  /\ IF accounts.kind # "array"
     THEN pc' = "threw" /\ UNCHANGED <<idx, outstanding, issued, writes, metricVars, failedOps>>
     ELSE IF idx > Len(accounts.entries)
     THEN pc' = "returned" /\ UNCHANGED <<idx, outstanding, issued, writes, metricVars, failedOps>>
     ELSE IF Account(idx).isNull
     THEN /\ BalanceCatch(idx)
          /\ failedOps' = [failedOps EXCEPT !["balances"] = @ + 1]
          /\ UNCHANGED <<outstanding, issued>>
     ELSE /\ GetBalance(idx)
          /\ UNCHANGED <<idx, writes, metricVars, failedOps>>
  /\ settled' = NoAnswer
  /\ UNCHANGED <<schedVars, lastRead>>

\* the RPC capability answers getBalance with a value
BalanceResolved(value) ==
  /\ InMain /\ pc = "awaitBalance"
  /\ BalanceRequest(idx) \in outstanding
  /\ outstanding' = outstanding \ {BalanceRequest(idx)}
  /\ BalanceTry(idx, value)
  /\ lastRead' = [lastRead EXCEPT !["balances"][Label(Account(idx))] = value]
  /\ settled' = Answer("getBalance", idx, TRUE, value)
  /\ UNCHANGED <<schedVars, issued, failedOps>>

\* the RPC capability answers getBalance with an error
BalanceRejected ==
  /\ InMain /\ pc = "awaitBalance"
  /\ BalanceRequest(idx) \in outstanding
  /\ outstanding' = outstanding \ {BalanceRequest(idx)}
  /\ BalanceCatch(idx)
  /\ failedOps' = [failedOps EXCEPT !["balances"] = @ + 1]
  /\ settled' = Answer("getBalance", idx, FALSE, <<>>)
  /\ UNCHANGED <<schedVars, issued, lastRead>>

\* line 108
IfSafe ==
  /\ InMain /\ pc = "ifSafe"
  /\ AfterBalance(idx)
  /\ settled' = NoAnswer
  /\ UNCHANGED <<schedVars, metricVars, writes, lastRead, failedOps>>

\* the RPC capability answers the contract call with a byte string
NonceResolved(bytes) ==
  /\ InMain /\ pc = "awaitNonce"
  /\ NonceRequest(idx) \in outstanding
  /\ outstanding' = outstanding \ {NonceRequest(idx)}
  /\ NonceTry(idx, bytes)
  /\ IF BigNumberAccepts(bytes)
     THEN /\ lastRead' = [lastRead EXCEPT !["safeNonces"][Label(Account(idx))] = BigNumberFrom(bytes)]
          /\ UNCHANGED failedOps
     ELSE /\ failedOps' = [failedOps EXCEPT !["safeNonce"] = @ + 1]
          /\ UNCHANGED lastRead
  /\ settled' = Answer("call", idx, TRUE, bytes)
  /\ UNCHANGED <<schedVars, issued>>

\* variant: an account whose nonce call failed is no longer taken for a safe
NonceRejected_ClearsSafeFlag ==
  /\ InMain /\ pc = "awaitNonce"
  /\ NonceRequest(idx) \in outstanding
  /\ outstanding' = outstanding \ {NonceRequest(idx)}
  /\ NonceCatch(idx)
  /\ failedOps' = [failedOps EXCEPT !["safeNonce"] = @ + 1]
  /\ settled' = Answer("call", idx, FALSE, <<>>)
  /\ accounts' = [accounts EXCEPT !.entries[idx].safe = FALSE]
  /\ UNCHANGED <<config, keepLog, phase, running, timer, ticks, prevIssued, issued, lastRead>>

\* the RPC capability answers the contract call with an error
NonceRejected ==
  /\ InMain /\ pc = "awaitNonce"
  /\ NonceRequest(idx) \in outstanding
  /\ outstanding' = outstanding \ {NonceRequest(idx)}
  /\ NonceCatch(idx)
  /\ failedOps' = [failedOps EXCEPT !["safeNonce"] = @ + 1]
  /\ settled' = Answer("call", idx, FALSE, <<>>)
  /\ UNCHANGED <<schedVars, issued, lastRead>>

----------------------------------------------------------------------------
(* The service loop around init() and main() *)

\* doLoop(): a tick begins, main() is entered
StartTick ==
  /\ phase' = "ticking"
  /\ timer' = "none"
  /\ ticks' = ticks + 1
  /\ pc' = "for"
  /\ idx' = 1
  /\ issued' = <<>>
  /\ writes' = <<>>
  /\ settled' = NoAnswer

\* service.run()
Run ==
  /\ phase = "uninitialized"
  /\ phase' = "initializing"
  /\ UNCHANGED <<config, keepLog, running, timer, accounts, idx, pc, outstanding, metricVars,
                 ticks, issued, writes, lastRead, failedOps, settled, prevIssued>>

\* variant: init also rejects an empty list
InitAccepts_NonEmpty(c) == JsonParses(c) /\ c.kind = "array" /\ c.entries # <<>>

\* lines 73-75: this.state.accounts = JSON.parse(this.options.accounts)
InitAccepts(c) == JsonParses(c)

\* init() throws: the service never starts
InitFails ==
  /\ phase = "initializing"
  /\ ~InitAccepts(config)
  /\ phase' = "fatal"
  /\ UNCHANGED <<config, keepLog, running, timer, accounts, idx, pc, outstanding, metricVars,
                 ticks, issued, writes, lastRead, failedOps, settled, prevIssued>>

\* init() returns: the first tick starts at once
InitDone ==
  /\ phase = "initializing"
  /\ InitAccepts(config)
  /\ accounts' = JsonParse(config)
  /\ StartTick
  /\ UNCHANGED <<config, keepLog, running, outstanding, metricVars, lastRead, failedOps, prevIssued>>

\* main() has returned or thrown: the loop waits for the interval, or stops
\* when the shutdown signal came during the tick
MainSettled ==
  /\ InMain /\ pc \in {"returned", "threw"}
  /\ pc' = "none"
  /\ idx' = 0
  /\ IF running
     THEN phase' = "idle" /\ timer' = "armed"
     ELSE phase' = "stopped" /\ timer' = "none"
  /\ issued' = <<>>
  /\ writes' = <<>>
  /\ settled' = NoAnswer
  /\ prevIssued' = [k \in DOMAIN issued |-> Call(issued[k])]
  /\ UNCHANGED <<config, keepLog, running, accounts, outstanding, metricVars, ticks, lastRead, failedOps>>

\* the interval has elapsed: the next tick starts
IntervalElapsed ==
  /\ timer = "armed"
  /\ ticks < MaxTicks
  /\ StartTick
  /\ UNCHANGED <<config, keepLog, running, accounts, outstanding, metricVars, lastRead, failedOps,
                 prevIssued>>

\* the external shutdown signal: a pending interval wait is cancelled, a tick
\* in flight is left alone
Shutdown ==
  /\ running
  /\ phase \in {"idle", "ticking"}
  /\ running' = FALSE
  /\ IF phase = "idle"
     THEN phase' = "stopped" /\ timer' = "none"
     ELSE UNCHANGED <<phase, timer>>
  /\ UNCHANGED <<config, keepLog, accounts, idx, pc, outstanding, metricVars, ticks, issued, writes,
                 lastRead, failedOps, settled, prevIssued>>

----------------------------------------------------------------------------

Init ==
  /\ config \in Configs
  /\ phase = "uninitialized"
  /\ running = TRUE
  /\ timer = "none"
  /\ accounts = [kind |-> "undefined", entries |-> <<>>]
  /\ idx = 0
  /\ pc = "none"
  /\ outstanding = {}
  /\ balances = [l \in LabelPairs |-> NoValue]
  /\ safeNonces = [l \in LabelPairs |-> NoValue]
  /\ unexpectedRpcErrors = [l \in ErrorLabels |-> 0]
  /\ ticks = 0
  /\ issued = <<>>
  /\ writes = <<>>
  /\ lastRead = [m \in {"balances", "safeNonces"} |-> [l \in LabelPairs |-> NoValue]]
  /\ failedOps = [s \in Sections |-> 0]
  /\ settled = NoAnswer
  /\ prevIssued = <<>>
  /\ keepLog = FALSE

Next ==
  \/ Run
  \/ InitFails
  \/ InitDone
  \/ ForOf
  \/ \E value \in BalanceValues : BalanceResolved(value)
  \/ BalanceRejected
  \/ IfSafe
  \/ \E bytes \in CallReturns : NonceResolved(bytes)
  \/ NonceRejected
  \/ MainSettled
  \/ IntervalElapsed
  \/ Shutdown

Spec == Init /\ [][Next]_vars

\* the configurations whose list, if there is one, holds account records only
RecordConfigs ==
  {c \in Configs : \A k \in DOMAIN c.entries : c.entries[k] \in AccountRecords}

\* the same service observed through a sink that keeps the record of its calls
\* for the whole tick, on lists of account records
LogInit ==
  /\ config \in RecordConfigs
  /\ phase = "uninitialized"
  /\ running = TRUE
  /\ timer = "none"
  /\ accounts = [kind |-> "undefined", entries |-> <<>>]
  /\ idx = 0
  /\ pc = "none"
  /\ outstanding = {}
  /\ balances = [l \in LabelPairs |-> NoValue]
  /\ safeNonces = [l \in LabelPairs |-> NoValue]
  /\ unexpectedRpcErrors = [l \in ErrorLabels |-> 0]
  /\ ticks = 0
  /\ issued = <<>>
  /\ writes = <<>>
  /\ lastRead = [m \in {"balances", "safeNonces"} |-> [l \in LabelPairs |-> NoValue]]
  /\ failedOps = [s \in Sections |-> 0]
  /\ settled = NoAnswer
  /\ prevIssued = <<>>
  /\ keepLog = TRUE

LogSpec == LogInit /\ [][Next]_vars

----------------------------------------------------------------------------
(* Vocabulary of the properties *)

NumAccounts == Len(accounts.entries)

\* the registry is an array of objects
WellFormed ==
  /\ accounts.kind = "array"
  /\ \A i \in 1..NumAccounts : ~Account(i).isNull

\* the configuration the specification calls malformed
Malformed(c) ==
  \/ c.kind # "array"
  \/ \E i \in 1..Len(c.entries) : c.entries[i] \notin AccountRecords

IssuedFor(i, op) == {k \in DOMAIN issued : issued[k].idx = i /\ issued[k].op = op}
WritesFor(i, step) == {k \in DOMAIN writes : writes[k].idx = i /\ writes[k].step = step}

\* the loop body of entry i has just run to its end: `writes` holds all the
\* sink calls made for it
Passed(i) == phase = "ticking" /\ i = idx - 1 /\ pc \in {"for", "awaitBalance", "returned"}

\* the balance step of entry i is over and its nonce step is not
BalanceStepDone(i) == phase = "ticking" /\ i = idx /\ pc \in {"ifSafe", "awaitNonce"}

\* main() has returned in the current tick
Returned == phase = "ticking" /\ pc = "returned"

BalanceGaugeWrite(i, k) ==
  writes[k].metric = "balances" /\ writes[k].labels = Label(Account(i))
BalanceErrorInc(k) ==
  writes[k].metric = "unexpectedRpcErrors" /\ writes[k].labels = <<"balances", "getBalance">>
NonceGaugeWrite(i, k) ==
  writes[k].metric = "safeNonces" /\ writes[k].labels = Label(Account(i))
NonceErrorInc(k) ==
  writes[k].metric = "unexpectedRpcErrors" /\ writes[k].labels = <<"safeNonce", "getSafeNonce">>

----------------------------------------------------------------------------
\* C1: within a tick over a registry of account records, whatever the RPC
\* calls answer, main() does not throw and returns only after the last entry;
\* by then getBalance has been issued for every entry and the contract call for
\* every safe entry, and each entry, when the loop leaves it, has had a sink
\* call from its balance step and, when safe, one from its nonce step.
C1_FailureIsolation ==
  WellFormed =>
    /\ pc # "threw"
    /\ (Returned => idx = NumAccounts + 1)
    /\ \A i \in 1..NumAccounts :
         /\ (Returned \/ i < idx) =>
              /\ IssuedFor(i, "getBalance") # {}
              /\ (Account(i).safe => IssuedFor(i, "call") # {})
         /\ Passed(i) =>
              /\ WritesFor(i, "balance") # {}
              /\ (Account(i).safe => WritesFor(i, "nonce") # {})

\* the first tick over two accounts has returned: the balance read of the safe
\* first account failed (counted, its gauge absent), its nonce was written all
\* the same, and the balance of the second account was written
C1_Witness ==
  /\ WellFormed /\ Returned /\ NumAccounts = 2 /\ ticks = 1
  /\ Account(1).safe
  /\ Label(Account(1)) # Label(Account(2))
  /\ unexpectedRpcErrors[<<"balances", "getBalance">>] = 1
  /\ balances[Label(Account(1))] = NoValue
  /\ safeNonces[Label(Account(1))] # NoValue
  /\ balances[Label(Account(2))] # NoValue

\* C2: in a tick over a non-empty registry of account records, getBalance is
\* invoked at most once per entry and exactly once for an entry whose balance
\* step is over, and the balance step makes exactly one sink call: the balance
\* gauge set for (address, nickname) or the error counter incremented for
\* (balances, getBalance).
C2_OneBalanceAttempt ==
  (WellFormed /\ NumAccounts > 0) =>
    \A i \in 1..NumAccounts :
      /\ Cardinality(IssuedFor(i, "getBalance")) <= 1
      /\ Cardinality(WritesFor(i, "balance")) <= 1
      /\ \A k \in WritesFor(i, "balance") : BalanceGaugeWrite(i, k) \/ BalanceErrorInc(k)
      /\ (Returned \/ i < idx) => Cardinality(IssuedFor(i, "getBalance")) = 1
      /\ (Passed(i) \/ BalanceStepDone(i)) => Cardinality(WritesFor(i, "balance")) = 1

\* the first tick over two accounts has returned, the first balance written,
\* the second counted
C2_Witness ==
  /\ WellFormed /\ Returned /\ NumAccounts = 2 /\ ticks = 1
  /\ Label(Account(1)) # Label(Account(2))
  /\ balances[Label(Account(1))] # NoValue
  /\ balances[Label(Account(2))] = NoValue
  /\ \E k \in WritesFor(2, "balance") : BalanceErrorInc(k)
  /\ unexpectedRpcErrors[<<"balances", "getBalance">>] = 1

\* C3: in a tick, the contract call is invoked at most once per safe entry and
\* exactly once for a safe entry the loop has left, and the nonce step makes
\* exactly one sink call: the nonce gauge set for (address, nickname) or the
\* error counter incremented for (safeNonce, getSafeNonce); the outcome of the
\* balance step plays no part.
C3_OneNonceAttempt ==
  WellFormed =>
    \A i \in 1..NumAccounts : Account(i).safe =>
      /\ Cardinality(IssuedFor(i, "call")) <= 1
      /\ Cardinality(WritesFor(i, "nonce")) <= 1
      /\ \A k \in WritesFor(i, "nonce") : NonceGaugeWrite(i, k) \/ NonceErrorInc(k)
      /\ (Returned \/ i < idx) => Cardinality(IssuedFor(i, "call")) = 1
      /\ Passed(i) => Cardinality(WritesFor(i, "nonce")) = 1

\* the first tick over two safe accounts has returned: one balance read
\* failed and one nonce step failed, the other nonce was written; the second
\* account is the one whose balance was written and whose nonce step failed
C3_Witness ==
  /\ WellFormed /\ Returned /\ NumAccounts = 2 /\ ticks = 1
  /\ Account(1).safe /\ Account(2).safe
  /\ unexpectedRpcErrors[<<"balances", "getBalance">>] = 1
  /\ unexpectedRpcErrors[<<"safeNonce", "getSafeNonce">>] = 1
  /\ safeNonces[Label(Account(1))] # NoValue
  /\ \E k \in WritesFor(2, "balance") : BalanceGaugeWrite(2, k)
  /\ \E k \in WritesFor(2, "nonce") : NonceErrorInc(k)

\* C4: for an entry that is not safe, no contract call is issued or in flight
\* and no sink call comes from a nonce step of that entry, in any tick.
C4_NoNonceForPlainAccount ==
  accounts.kind = "array" =>
    \A i \in 1..NumAccounts : ~Account(i).safe =>
      /\ IssuedFor(i, "call") = {}
      /\ WritesFor(i, "nonce") = {}
      /\ \A o \in outstanding : ~(o.op = "call" /\ o.idx = i)

\* in the second tick, a plain account and a safe account share a label pair:
\* the nonce gauge of the pair is written, by the safe entry only
C4_Witness ==
  /\ WellFormed /\ Returned /\ NumAccounts = 2 /\ ticks = 2
  /\ ~Account(1).safe /\ Account(2).safe
  /\ Label(Account(1)) = Label(Account(2))
  /\ Len(issued) = 3
  /\ \E k \in WritesFor(2, "nonce") : NonceGaugeWrite(2, k)

\* C5 as stated: every gauge series holds the value the most recent
\* successful read for its label pair returned.
C5_GaugeEqualsReturnedValue ==
  \A l \in LabelPairs :
    /\ balances[l] = lastRead["balances"][l]
    /\ safeNonces[l] = lastRead["safeNonces"][l]

\* what a gauge holds for a value read: the JavaScript number parseInt makes
\* of its decimal digits
AsGaugeNumber(read) == IF read = NoValue THEN NoValue ELSE ParseIntOfDecimal(read)

\* C5, amended: every gauge series holds the value the most recent successful
\* read for its label pair returned, converted to a JavaScript number (exact
\* up to 2^53, the nearest double above); a series nobody read successfully is
\* absent, and a failed read leaves the stored value as it was.
C5_GaugeIsLastSuccessfulRead ==
  \A l \in LabelPairs :
    /\ balances[l] = AsGaugeNumber(lastRead["balances"][l])
    /\ safeNonces[l] = AsGaugeNumber(lastRead["safeNonces"][l])

\* in the second tick the balance read of an account failed and its nonce
\* call returned 0x, while the gauges still hold what the first tick read:
\* 2^53 for a balance of 2^53 + 1 wei, and 2^53 for the nonce 0x20000000000001
C5_Witness ==
  /\ WellFormed /\ Returned /\ ticks = 2 /\ NumAccounts = 1
  /\ Account(1).safe
  /\ \E k \in WritesFor(1, "balance") : BalanceErrorInc(k)
  /\ \E k \in WritesFor(1, "nonce") : NonceErrorInc(k)
  /\ lastRead["balances"][Label(Account(1))] = <<DoubleExact, 1>>
  /\ balances[Label(Account(1))] = <<DoubleExact, 0>>
  /\ safeNonces[Label(Account(1))] = <<DoubleExact, 0>>

\* C6 as stated: with a malformed accounts configuration the service gets no
\* further than the fatal state, and no RPC call, gauge write or counter
\* increment ever happens.
C6_MalformedConfigIsFatal ==
  Malformed(config) =>
    /\ phase \in {"uninitialized", "initializing", "fatal"}
    /\ ticks = 0
    /\ issued = <<>> /\ outstanding = {} /\ writes = <<>>
    /\ \A l \in LabelPairs : balances[l] = NoValue /\ safeNonces[l] = NoValue
    /\ \A l \in ErrorLabels : unexpectedRpcErrors[l] = 0

\* C7: ticks never overlap and the delay is fixed: an RPC call is in flight
\* only during a tick and belongs to that tick, at most one main() is active,
\* the interval wait is pending only between ticks with nothing in flight, and
\* a tick starts only from init or from the end of the interval wait that was
\* armed when the previous main() had settled.
C7_NoCallOutsideItsTick ==
  /\ \A o \in outstanding : phase = "ticking" /\ o.tick = ticks
  /\ (timer = "armed" => phase = "idle" /\ pc = "none" /\ outstanding = {})
  /\ (phase # "ticking" => pc = "none")

C7_TickStartsAfterWait ==
  ticks' # ticks =>
    /\ ticks' = ticks + 1
    /\ pc = "none" /\ outstanding = {}
    /\ (timer = "armed" /\ phase = "idle") \/ (phase = "initializing" /\ ticks = 0)

C7_TicksNeverOverlap == [](C7_NoCallOutsideItsTick) /\ [][C7_TickStartsAfterWait]_vars

\* the second tick has its first call in flight
C7_Witness ==
  /\ ticks = 2 /\ phase = "ticking" /\ pc = "awaitBalance" /\ idx = 1
  /\ outstanding # {}

\* C8: once the shutdown signal has been received no tick starts; the signal
\* leaves main(), the calls in flight and the metrics as they are; a tick in
\* flight goes on to the last entry, and the service is stopped only when no
\* main() is active and no call is in flight.
C8_NoTickAfterSignal == ~running => ticks' = ticks

C8_SignalLeavesTickAlone ==
  (running /\ ~running') =>
    UNCHANGED <<pc, idx, outstanding, issued, writes, balances, safeNonces,
                unexpectedRpcErrors, accounts>>

C8_TickInFlightFinishes ==
  /\ (phase = "stopped" => ~running /\ pc = "none" /\ outstanding = {} /\ timer = "none")
  /\ (~running /\ WellFormed /\ Returned) =>
       /\ idx = NumAccounts + 1
       /\ \A i \in 1..NumAccounts :
            /\ IssuedFor(i, "getBalance") # {}
            /\ (Account(i).safe => IssuedFor(i, "call") # {})

C8_ShutdownIsCooperative ==
  /\ [][C8_NoTickAfterSignal]_vars
  /\ [][C8_SignalLeavesTickAlone]_vars
  /\ [](C8_TickInFlightFinishes)

\* the signal came during a tick over two accounts, and the tick has returned
\* after processing both
C8_Witness ==
  /\ ~running /\ Returned /\ NumAccounts = 2
  /\ WellFormed
  /\ IssuedFor(1, "getBalance") # {} /\ IssuedFor(2, "getBalance") # {}
  /\ \E k \in DOMAIN issued : issued[k].op = "call"

\* C9 as stated: for every account list init() accepts, a tick that has
\* started never ends by an exception leaving main().
C9_TickNeverThrows ==
  (config.kind = "array" /\ InitAccepts(config) /\ phase = "ticking") => pc # "threw"

\* C10: the error counter never decreases; (balances, getBalance) equals the
\* number of failed balance steps and (safeNonce, getSafeNonce) the number of
\* failed nonce steps since the start; every other label pair stays at zero.
C10_CounterMatchesFailures ==
  \A l \in ErrorLabels :
    unexpectedRpcErrors[l] =
      IF l = <<"balances", "getBalance">> THEN failedOps["balances"]
      ELSE IF l = <<"safeNonce", "getSafeNonce">> THEN failedOps["safeNonce"]
      ELSE 0

C10_CounterMonotonic ==
  \A l \in ErrorLabels : unexpectedRpcErrors'[l] >= unexpectedRpcErrors[l]

EmptyRegistry == accounts.kind = "array" /\ NumAccounts = 0

C11_EmptyListDoesNothing ==
  EmptyRegistry =>
    /\ issued = <<>> /\ outstanding = {} /\ writes = <<>>
    /\ \A l \in LabelPairs : balances[l] = NoValue /\ safeNonces[l] = NoValue
    /\ \A e \in ErrorLabels : unexpectedRpcErrors[e] = 0
    /\ pc \in {"none", "for", "returned"}
    /\ idx \in {0, 1}

\* the second tick over an empty list has returned
C11_Witness ==
  /\ EmptyRegistry /\ Returned /\ ticks = 2
  /\ issued = <<>> /\ writes = <<>>

\* ---------------------------------------------------------------------------
\* C12: within a tick the account steps run one after the other in registry
\* order.  At no time is more than one RPC call outstanding, and the one
\* outstanding is the one issued last; the calls of a tick are issued in
\* registry order, an entry's balance read before its nonce call; and a call is
\* issued only when every call issued before it has been answered.
C12_OneCallAtATime ==
  /\ Cardinality(outstanding) <= 1
  /\ \A request \in outstanding : issued # <<>> /\ request = issued[Len(issued)]

C12_RegistryOrder ==
  \A k, m \in DOMAIN issued :
    k < m => \/ issued[k].idx < issued[m].idx
             \/ /\ issued[k].idx = issued[m].idx
                /\ issued[k].op = "getBalance" /\ issued[m].op = "call"

C12_IssuedAfterCompletion ==
  [][Len(issued') > Len(issued) =>
       /\ outstanding = {}
       /\ Len(issued') = Len(issued) + 1
       /\ outstanding' = {issued'[Len(issued')]}]_vars

C12_Sequential ==
  /\ [](C12_OneCallAtATime /\ C12_RegistryOrder)
  /\ C12_IssuedAfterCompletion

\* the nonce call of the second of two safe accounts is outstanding, after the
\* three calls before it were answered
C12_Witness ==
  /\ NumAccounts = 2 /\ pc = "awaitNonce" /\ idx = 2
  /\ Len(issued) = 4 /\ outstanding = {NonceRequest(2)}
  /\ issued[3] = BalanceRequest(2)

\* ---------------------------------------------------------------------------
\* C13 vocabulary: the big-endian unsigned integer a byte string stands for,
\* computed place by place.  The byte k places from the right weighs 256^k;
\* its bits are dealt to the two limbs of the result.
RECURSIVE TwoToThe(_)
TwoToThe(n) == IF n = 0 THEN 1 ELSE 2 * TwoToThe(n - 1)

\* the number of bits of a limb
LimbBits == CHOOSE n \in 1..30 : TwoToThe(n) = LimbBase

LowLimbShare(byte, shift) ==
  IF shift >= LimbBits THEN 0
  ELSE IF shift + 8 <= LimbBits THEN byte * TwoToThe(shift)
  ELSE (byte % TwoToThe(LimbBits - shift)) * TwoToThe(shift)

HighLimbShare(byte, shift) ==
  IF shift >= LimbBits THEN byte * TwoToThe(shift - LimbBits)
  ELSE IF shift + 8 <= LimbBits THEN 0
  ELSE byte \div TwoToThe(LimbBits - shift)

BigEndianUnsigned(bytes) ==
  LET n == Len(bytes)
      sum[k \in 0..n] ==
        IF k = 0 THEN <<0, 0>>
        ELSE <<sum[k - 1][1] + HighLimbShare(bytes[k], 8 * (n - k)),
               sum[k - 1][2] + LowLimbShare(bytes[k], 8 * (n - k))>>
  IN  sum[n]

\* the integer each byte string the RPC capability may return stands for
IntegerOfReturn == [bytes \in CallReturns |-> BigEndianUnsigned(bytes)]

\* a byte string that can be read as an unsigned integer has at least one byte
Readable(bytes) == Len(bytes) >= 1

\* the latest step of main() took the answer to the nonce call of entry i
NonceAnswered(i) == settled.op = "call" /\ settled.idx = i

\* C13 as stated: when the nonce call returns a readable byte string, the
\* nonce gauge holds exactly the big-endian unsigned integer it stands for.
C13_NonceGaugeIsTheInteger ==
  \A i \in 1..NumAccounts :
    NonceAnswered(i) /\ settled.ok /\ Readable(settled.value) =>
      safeNonces[Label(Account(i))] = IntegerOfReturn[settled.value]

\* C13, amended: when the nonce call of a safe account returns a readable
\* byte string, the nonce step makes one sink call, which sets the nonce gauge
\* to the double nearest to the big-endian unsigned integer the bytes stand for
\* (that integer itself below 2^53), whatever the balance step of the same
\* entry did; when it returns a string that cannot be read, or fails, the
\* nonce step makes one sink call, the increment of the safeNonce counter.
C13_NonceGaugeIsNearestDouble ==
  \A i \in 1..NumAccounts :
    NonceAnswered(i) =>
      /\ Account(i).safe
      /\ Cardinality(WritesFor(i, "nonce")) = 1
      /\ \A k \in WritesFor(i, "nonce") :
           IF settled.ok /\ Readable(settled.value)
           THEN /\ NonceGaugeWrite(i, k)
                /\ writes[k].value = ParseIntOfDecimal(IntegerOfReturn[settled.value])
                /\ safeNonces[Label(Account(i))] = writes[k].value
           ELSE NonceErrorInc(k)

\* the balance read of a safe account failed, and its nonce call then
\* returned 0x20000000000001: the gauge holds 2^53
C13_Witness ==
  /\ NonceAnswered(1) /\ settled.ok /\ settled.value = <<32, 0, 0, 0, 0, 0, 1>>
  /\ \E k \in WritesFor(1, "balance") : BalanceErrorInc(k)
  /\ balances[Label(Account(1))] = NoValue
  /\ safeNonces[Label(Account(1))] = <<DoubleExact, 0>>

\* ---------------------------------------------------------------------------
\* C14: the account registry is read-only after initialization.  Once init
\* has run, the registry is the list init produced from the configuration, and
\* no step (tick, RPC answer, metric write, shutdown) changes its length, its
\* order or any entry's address, nickname or safe flag.
Initialized == phase \in {"idle", "ticking", "stopped"}

C14_RegistryIsWhatInitProduced ==
  Initialized => accounts = JsonParse(config)

C14_RegistryNeverChanges ==
  [][Initialized => accounts' = accounts]_vars

C14_RegistryReadOnly ==
  /\ [](C14_RegistryIsWhatInitProduced)
  /\ C14_RegistryNeverChanges

\* two ticks over a registry of two safe accounts, with failures of both kinds
\* and gauge writes behind them, and the registry is still the configured one
C14_Witness ==
  /\ Returned /\ ticks = 2 /\ NumAccounts = 2
  /\ Account(1).safe /\ Account(2).safe
  /\ accounts.entries = config.entries
  /\ unexpectedRpcErrors[<<"balances", "getBalance">>] >= 1
  /\ unexpectedRpcErrors[<<"safeNonce", "getSafeNonce">>] >= 1
  /\ \E l \in LabelPairs : balances[l] # NoValue /\ safeNonces[l] # NoValue

\* ---------------------------------------------------------------------------
\* C15 vocabulary, read on the record of sink calls kept for the whole tick
SharesLabel(i) ==
  \E j \in 1..NumAccounts : j # i /\ Label(Account(j)) = Label(Account(i))

\* the entries with label pair l whose balance read succeeded in this tick
ReadOk(l) ==
  {i \in 1..NumAccounts :
     /\ Label(Account(i)) = l
     /\ \E k \in WritesFor(i, "balance") : BalanceGaugeWrite(i, k)}

Latest(S) == CHOOSE i \in S : \A j \in S : j <= i

\* the latest step of main() took the answer to the balance read of entry i
BalanceAnswered(i) == settled.op = "getBalance" /\ settled.idx = i

\* C15 as stated, for the moment the answer arrives: when the balance read of
\* an entry that shares its label pair succeeds, the gauge of the pair holds
\* the value read.
C15_DuplicateGaugeIsValueRead ==
  \A i \in 1..NumAccounts :
    WellFormed /\ SharesLabel(i) /\ BalanceAnswered(i) /\ settled.ok =>
      balances[Label(Account(i))] = settled.value

\* C15, amended (1): a successful balance read of an entry that shares its
\* label pair overwrites the gauge of the pair, whatever an earlier entry wrote
\* there: the sink call made last sets it to the double nearest to the value
\* read, and the gauge holds that number.
C15_EachReadOverwrites ==
  \A i \in 1..NumAccounts :
    WellFormed /\ SharesLabel(i) /\ BalanceAnswered(i) /\ settled.ok =>
      /\ writes # <<>>
      /\ writes[Len(writes)].idx = i
      /\ BalanceGaugeWrite(i, Len(writes))
      /\ writes[Len(writes)].value = ParseIntOfDecimal(settled.value)
      /\ balances[Label(Account(i))] = writes[Len(writes)].value

\* C15, amended (2): in every tick each entry that shares its label pair gets
\* its own balance read and balance step, and a nonce call exactly when its
\* own safe flag is set.
C15_EachEntryProcessed ==
  \A i \in 1..NumAccounts :
    WellFormed /\ Returned /\ SharesLabel(i) =>
      /\ Cardinality(IssuedFor(i, "getBalance")) = 1
      /\ Cardinality(WritesFor(i, "balance")) = 1
      /\ Cardinality(IssuedFor(i, "call")) = (IF IsSafe(Account(i)) THEN 1 ELSE 0)
      /\ Cardinality(WritesFor(i, "nonce")) = (IF IsSafe(Account(i)) THEN 1 ELSE 0)

\* C15, amended (3): at the end of a tick the gauge of a shared label pair
\* holds the number written for the latest entry, in registry order, whose
\* balance read succeeded in this tick.
C15_LatestSuccessfulEntryWins ==
  \A i \in 1..NumAccounts :
    WellFormed /\ Returned /\ SharesLabel(i) /\ ReadOk(Label(Account(i))) # {} =>
      \A k \in WritesFor(Latest(ReadOk(Label(Account(i)))), "balance") :
        balances[Label(Account(i))] = writes[k].value

C15_DuplicatesLastWriteWins ==
  C15_EachReadOverwrites /\ C15_EachEntryProcessed /\ C15_LatestSuccessfulEntryWins

\* two entries share a label pair; in the second tick the first one read
\* 2^53 + 1 wei, the second one read 5 wei, and the gauge holds 5
C15_Witness ==
  /\ WellFormed /\ Returned /\ ticks = 2 /\ NumAccounts = 2 /\ SharesLabel(1)
  /\ ReadOk(Label(Account(1))) = {1, 2}
  /\ \E k \in WritesFor(1, "balance") : writes[k].value = <<DoubleExact, 0>>
  /\ \E k \in WritesFor(2, "balance") : writes[k].value = <<0, 5>>
  /\ balances[Label(Account(1))] = <<0, 5>>

\* ---------------------------------------------------------------------------
\* C16 vocabulary: the RPC calls a registry of account records asks for, in
\* order: for each entry a balance read of its address, followed, for a safe,
\* by the nonce call to its address.
CallsOfEntry(account) ==
  <<[op |-> "getBalance", to |-> account.address, data |-> ""]>>
    \o (IF account.safe
        THEN <<[op |-> "call", to |-> account.address, data |-> "0xaffed0e0"]>>
        ELSE <<>>)

RECURSIVE CallsOfRegistry(_)
CallsOfRegistry(entries) ==
  IF entries = <<>> THEN <<>>
  ELSE CallsOfEntry(Head(entries)) \o CallsOfRegistry(Tail(entries))

\* the calls issued so far in the current tick, as the RPC capability saw them
CallsSoFar == [k \in DOMAIN issued |-> Call(issued[k])]

IsPrefix(s, t) == Len(s) <= Len(t) /\ s = SubSeq(t, 1, Len(s))

\* main() has returned or thrown in the current tick
TickOver == phase = "ticking" /\ pc \in {"returned", "threw"}

\* C16 (1): the calls of a tick are determined by the registry alone: during
\* a tick the calls issued so far are a prefix of the calls of the registry, and
\* when main() returns they are exactly those, each once, whatever any call of
\* this tick or of an earlier tick answered.
C16_CallsDeterminedByRegistry ==
  WellFormed /\ phase = "ticking" =>
    /\ IsPrefix(CallsSoFar, CallsOfRegistry(accounts.entries))
    /\ Returned => CallsSoFar = CallsOfRegistry(accounts.entries)

\* C16 (2): every tick issues the calls the tick before it issued, in the
\* same order, for every registry.
C16_SameCallsEveryTick ==
  phase = "ticking" /\ ticks >= 2 =>
    /\ IsPrefix(CallsSoFar, prevIssued)
    /\ TickOver => CallsSoFar = prevIssued

\* C16 (3): nothing is retried within a tick: no entry has two calls of the
\* same operation in one tick.
C16_NoRetryWithinTick ==
  \A k, m \in DOMAIN issued :
    issued[k].idx = issued[m].idx /\ issued[k].op = issued[m].op => k = m

C16_NoRetryNoMemory ==
  C16_CallsDeterminedByRegistry /\ C16_SameCallsEveryTick /\ C16_NoRetryWithinTick

\* both calls of a safe account failed in the first tick, and the second tick
\* made the same two calls, which failed again
C16_Witness ==
  /\ WellFormed /\ Returned /\ ticks = 2 /\ NumAccounts = 1 /\ Account(1).safe
  /\ Len(issued) = 2 /\ CallsSoFar = prevIssued
  /\ unexpectedRpcErrors[<<"balances", "getBalance">>] = 2
  /\ unexpectedRpcErrors[<<"safeNonce", "getSafeNonce">>] = 2
  /\ balances[Label(Account(1))] = NoValue

\* ---------------------------------------------------------------------------
\* C17 vocabulary: the lifecycle states of the service
Scheduling == phase \in {"idle", "ticking"}
Terminal == phase \in {"stopped", "fatal"}

\* C17 (1): the running flag is cleared by the external shutdown signal and by
\* nothing else, and the service enters Stopped only from Idle or Ticking and
\* only with the flag cleared.
C17_StoppedOnlyBySignal ==
  [][/\ (running /\ ~running') => Shutdown
     /\ (phase' = "stopped" /\ phase # "stopped") => (Scheduling /\ ~running')]_vars

\* C17 (2): the service enters Fatal only from Initializing, and only when
\* the accounts option is text JSON.parse rejects.
C17_FatalOnlyFromInit ==
  [][(phase' = "fatal" /\ phase # "fatal") =>
       (phase = "initializing" /\ ~JsonParses(config))]_vars

\* C17 (3): from Idle or Ticking the service goes nowhere but Idle, Ticking
\* and Stopped, whatever the RPC calls answer and whether main() returns or
\* throws; Stopped and Fatal are left by no step.
C17_NoWayToFatalFromScheduling ==
  [][/\ Scheduling => phase' \in {"idle", "ticking", "stopped"}
     /\ Terminal => phase' = phase]_vars

\* C17 (4): a stopped service was signalled; a service in the fatal state has
\* never run a tick.
C17_TerminalStates ==
  /\ phase = "stopped" => ~running
  /\ phase = "fatal" => (running /\ ticks = 0 /\ ~JsonParses(config))

C17_Lifecycle ==
  /\ C17_StoppedOnlyBySignal
  /\ C17_FatalOnlyFromInit
  /\ C17_NoWayToFatalFromScheduling
  /\ [](C17_TerminalStates)

\* after two ticks in which every RPC call of a safe account failed, the
\* service is idle with the next tick scheduled
C17_Witness ==
  /\ phase = "idle" /\ running /\ timer = "armed" /\ ticks = 2
  /\ unexpectedRpcErrors[<<"balances", "getBalance">>] = 2
  /\ unexpectedRpcErrors[<<"safeNonce", "getSafeNonce">>] = 2

\* ---------------------------------------------------------------------------
\* C18 vocabulary: the steps of main() by the part of the loop body they
\* belong to
InBalanceStep(i) == phase = "ticking" /\ idx = i /\ pc \in {"for", "awaitBalance"}
InNonceStep(i) == phase = "ticking" /\ idx = i /\ pc \in {"ifSafe", "awaitNonce"}

OthersUnchanged(gauge, gaugeAfter, l) ==
  \A other \in LabelPairs : other # l => gaugeAfter[other] = gauge[other]

\* C18 (1): a step of the balance step of an entry leaves every nonce gauge
\* series and every balance gauge series but the entry's own unchanged.
C18_BalanceStepFrame ==
  [][\A i \in 1..NumAccounts :
       InBalanceStep(i) =>
         /\ safeNonces' = safeNonces
         /\ OthersUnchanged(balances, balances', Label(Account(i)))]_vars

\* C18 (2): a step of the nonce step of an entry leaves every balance gauge
\* series unchanged, the one written for the same entry in this tick included,
\* and every nonce gauge series but the entry's own.
C18_NonceStepFrame ==
  [][\A i \in 1..NumAccounts :
       InNonceStep(i) =>
         /\ balances' = balances
         /\ OthersUnchanged(safeNonces, safeNonces', Label(Account(i)))]_vars

\* C18 (3): a step that takes a successful answer leaves the error counter
\* unchanged.
C18_SuccessLeavesCounter ==
  [][(/\ settled'.ok
      /\ settled'.op = "call" => Readable(settled'.value)) =>
       unexpectedRpcErrors' = unexpectedRpcErrors]_vars

C18_StepsChangeOwnSeriesOnly ==
  C18_BalanceStepFrame /\ C18_NonceStepFrame /\ C18_SuccessLeavesCounter

\* in the first tick the balance of a safe account was written and its nonce
\* call then failed: the balance gauge still holds what was written
C18_Witness ==
  /\ ticks = 1 /\ settled.op = "call" /\ settled.idx = 1 /\ ~settled.ok
  /\ \E k \in WritesFor(1, "balance") :
       BalanceGaugeWrite(1, k) /\ balances[Label(Account(1))] = writes[k].value
  /\ \E k \in WritesFor(1, "nonce") : NonceErrorInc(k)
  /\ safeNonces[Label(Account(1))] = NoValue

====
